---- MODULE Spec2Model ----
(***************************************************************************)
(* arrow-convert: mapping of rust types to Arrow schema (field.rs) and     *)
(* deserialization of arrow arrays into rust values (deserialize.rs).      *)
(*                                                                         *)
(* Encoding.  A rust type is a tuple whose first element is its head:      *)
(*   <<"u32">>, <<"Option", T>>, <<"Vec", T>>, <<"FixedSizeVec", T, <<n>>>>,*)
(*   <<"Array", T, n>> for [T; n], <<"FixedSizeBinary", <<>>, <<n>>>>,     *)
(*   <<"I128", <<>>, <<p, s>>>>.                                           *)
(* A usize n is the pair <<q, r>> with n = q * 2^16 + r, 0 <= r < 2^16, so *)
(* that lengths beyond the i32 range can be written down.                  *)
(* An arrow DataType is a tuple <<tag>>, <<tag, Field>> or                 *)
(* <<tag, Field, <<n>>>>; a Field is <<name, DataType, nullable>>.         *)
(* Option values: None is <<>>, Some(v) is <<v>>.                          *)
(***************************************************************************)
EXTENDS Integers, Sequences, FiniteSets, TLC

VARIABLES ty, h, call, res, iter

vars == <<ty, h, call, res, iter>>

----------------------------------------------------------------------------
(* Bounds of the model *)

\* nesting depth of the type constructors applied to a leaf type
MaxDepth == 2

----------------------------------------------------------------------------
(* Option<T> *)

None == <<>>

Some(v) == <<v>>

IsSome(o) == Len(o) = 1

Unwrapped(o) == o[1]

----------------------------------------------------------------------------
(* field.rs: the rust types *)

DEFAULT_FIELD_NAME == "item"

\* width of the target of the cast `SIZE as i32`
I32Bits == 32

HalfWord == 2 ^ (I32Bits \div 2)

Leaf(k) == <<k>>

Ctor(T) == T[1]

Inner(T) == T[2]

Param(T) == T[3]

\* impl_numeric_type_full!: numeric types that also get the Vec marker
NumericFull ==
    { "u16", "u32", "u64", "i8", "i16", "i32", "i64", "f16", "f32", "f64" }

\* impl_numeric_type!: every numeric type with a DataType of its own
Numeric == { "u8" } \cup NumericFull

\* the remaining unparameterised types with a hand-written ArrowField impl
OtherLeaf ==
    { "&str", "String", "LargeString", "bool", "NaiveDateTime", "NaiveDate",
      "Buffer", "LargeBinary" }

\* values of the const parameter SIZE: i32
I32Sizes == { 0, 3 }

\* values of the const parameter SIZE: usize, as <<q, r>> = q * 2^16 + r:
\* 3, 2^31 - 1, 2^31 and 2^32 + 3
UsizeSizes == { <<0, 3>>, <<32767, 65535>>, <<32768, 0>>, <<65536, 3>> }

\* values of the const parameters PRECISION: u8, SCALE: i8
DecimalParams == { <<38, 10>> }

LeafTypes ==
    { Leaf(k) : k \in Numeric \cup OtherLeaf }
      \cup { <<"FixedSizeBinary", <<>>, <<n>>>> : n \in I32Sizes }
      \cup { <<"I128", <<>>, ps>> : ps \in DecimalParams }

Wrap(S) ==
    { <<c, T>> : c \in { "Option", "Vec", "LargeVec", "ScalarBuffer" }, T \in S }
      \cup { <<"FixedSizeVec", T, <<n>>>> : T \in S, n \in I32Sizes }
      \cup { <<"Array", T, n>> : T \in S, n \in UsizeSizes }

RECURSIVE TypesUpTo(_)
TypesUpTo(d) ==
    IF d = 0 THEN LeafTypes ELSE LeafTypes \cup Wrap(TypesUpTo(d - 1))

IsLeaf(T) == Len(T) = 1

U8 == Leaf("u8")

\* the arrow crate's ArrowNativeType, restricted to the types above
ArrowNativeType(T) == IsLeaf(T) /\ Ctor(T) \in Numeric

----------------------------------------------------------------------------
(* field.rs: ArrowEnableVecForType and ArrowField *)

RECURSIVE ArrowEnableVecForType(_), ImplArrowField(_), data_type(_)

\* the marker given to u8 as well, as impl_numeric_type_full!(u8, UInt8) would
VecEnabledLeaf_u8 ==
    Numeric
      \cup { "String", "LargeString", "bool", "NaiveDateTime", "NaiveDate",
             "Buffer", "LargeBinary" }

\* the unparameterised types given the marker by arrow_enable_vec_for_type!
VecEnabledLeaf ==
    NumericFull
      \cup { "String", "LargeString", "bool", "NaiveDateTime", "NaiveDate",
             "Buffer", "LargeBinary" }

\* which types carry the marker trait ArrowEnableVecForType
ArrowEnableVecForType(T) ==
    CASE IsLeaf(T) -> Ctor(T) \in VecEnabledLeaf
      [] Ctor(T) \in { "FixedSizeBinary", "I128" } -> TRUE
      [] Ctor(T) = "Option" ->
           ImplArrowField(Inner(T)) /\ ArrowEnableVecForType(Inner(T))
      [] Ctor(T) = "Vec" ->
           \/ Inner(T) = U8
           \/ ImplArrowField(Inner(T)) /\ ArrowEnableVecForType(Inner(T))
      [] Ctor(T) = "ScalarBuffer" ->
           \/ Inner(T) = U8
           \/ /\ ImplArrowField(Inner(T))
              /\ ArrowEnableVecForType(Inner(T))
              /\ ArrowNativeType(Inner(T))
      [] Ctor(T) \in { "LargeVec", "FixedSizeVec" } ->
           ImplArrowField(Inner(T)) /\ ArrowEnableVecForType(Inner(T))
      [] OTHER -> FALSE

\* which types implement ArrowField
ImplArrowField(T) ==
    CASE IsLeaf(T) -> TRUE
      [] Ctor(T) \in { "FixedSizeBinary", "I128" } -> TRUE
      [] Ctor(T) = "Option" -> ImplArrowField(Inner(T))
      [] Ctor(T) \in { "Vec", "Array" } ->
           \/ Inner(T) = U8
           \/ ImplArrowField(Inner(T)) /\ ArrowEnableVecForType(Inner(T))
      [] Ctor(T) = "ScalarBuffer" ->
           \/ Inner(T) = U8
           \/ /\ ImplArrowField(Inner(T))
              /\ ArrowEnableVecForType(Inner(T))
              /\ ArrowNativeType(Inner(T))
      [] Ctor(T) \in { "LargeVec", "FixedSizeVec" } ->
           ImplArrowField(Inner(T)) /\ ArrowEnableVecForType(Inner(T))
      [] OTHER -> FALSE

\* the cast `SIZE as i32` of a usize: keep the low 32 bits, read them as
\* two's complement
AsI32(n) ==
    LET hi == n[1] % HalfWord
    IN  IF hi < HalfWord \div 2
          THEN hi * HalfWord + n[2]
          ELSE (hi - HalfWord) * HalfWord + n[2]

\* is_nullable without the override of the Option<T> impl
is_nullable_default(T) == FALSE

\* ArrowField::is_nullable: false, except for the Option<T> impl
is_nullable(T) == Ctor(T) = "Option"

\* arrow's Field::new(name, data_type, nullable)
FieldNew(name, dt, nullable) == <<name, dt, nullable>>

\* ArrowField::field
field(T, name) == FieldNew(name, data_type(T), is_nullable(T))

NumericDataType(k) ==
    CASE k = "u8" -> "UInt8"   [] k = "u16" -> "UInt16"
      [] k = "u32" -> "UInt32" [] k = "u64" -> "UInt64"
      [] k = "i8" -> "Int8"    [] k = "i16" -> "Int16"
      [] k = "i32" -> "Int32"  [] k = "i64" -> "Int64"
      [] k = "f16" -> "Float16" [] k = "f32" -> "Float32"
      [] k = "f64" -> "Float64"

OtherDataType(k) ==
    CASE k \in { "&str", "String" } -> "Utf8"
      [] k = "LargeString" -> "LargeUtf8"
      [] k = "bool" -> "Boolean"
      [] k = "NaiveDateTime" -> "Timestamp(Nanosecond, None)"
      [] k = "NaiveDate" -> "Date32"
      [] k = "Buffer" -> "Binary"
      [] k = "LargeBinary" -> "LargeBinary"

\* Vec<u8> left to the blanket impl for Vec<T>
ByteVecDataType_list == <<"List", field(U8, DEFAULT_FIELD_NAME)>>

\* impl ArrowField for Vec<u8>
ByteVecDataType == <<"Binary">>

\* ArrowField::data_type, one case per impl
data_type(T) ==
    CASE IsLeaf(T) /\ Ctor(T) \in Numeric -> <<NumericDataType(Ctor(T))>>
      [] IsLeaf(T) /\ Ctor(T) \in OtherLeaf -> <<OtherDataType(Ctor(T))>>
      [] Ctor(T) = "I128" -> <<"Decimal128", <<>>, Param(T)>>
      [] Ctor(T) = "FixedSizeBinary" -> <<"FixedSizeBinary", <<>>, Param(T)>>
      [] Ctor(T) = "Option" -> data_type(Inner(T))
      [] Ctor(T) = "ScalarBuffer" ->
           IF Inner(T) = U8
             THEN <<"Binary">>
             ELSE <<"List", field(Inner(T), DEFAULT_FIELD_NAME)>>
      [] Ctor(T) = "Vec" ->
           IF Inner(T) = U8
             THEN ByteVecDataType
             ELSE <<"List", field(Inner(T), DEFAULT_FIELD_NAME)>>
      [] Ctor(T) = "LargeVec" ->
           <<"LargeList", field(Inner(T), DEFAULT_FIELD_NAME)>>
      [] Ctor(T) = "FixedSizeVec" ->
           <<"FixedSizeList", field(Inner(T), DEFAULT_FIELD_NAME), Param(T)>>
      [] Ctor(T) = "Array" ->
           IF Inner(T) = U8
             THEN <<"FixedSizeBinary", <<>>, <<AsI32(Param(T))>>>>
             ELSE <<"FixedSizeList", field(Inner(T), DEFAULT_FIELD_NAME),
                    <<AsI32(Param(T))>>>>

\* the types of the model that implement ArrowField
FieldTypes == { T \in TypesUpTo(MaxDepth) : ImplArrowField(T) }

\* names handed to ArrowField::field
Names == { DEFAULT_FIELD_NAME, "a" }

----------------------------------------------------------------------------
(* The schema descriptor as a state machine: a type is chosen, and the     *)
(* associated functions of ArrowField are called on it.                    *)

NoHandle == <<"none">>

NoIter == <<"none">>

InitField ==
    /\ ty \in FieldTypes
    /\ h = NoHandle
    /\ call = <<"none">>
    /\ res = <<"none">>
    /\ iter = NoIter

DoDataType ==
    /\ ImplArrowField(ty)
    /\ call' = <<"data_type">>
    /\ res' = <<"DataType", data_type(ty)>>
    /\ UNCHANGED <<ty, h, iter>>

DoField ==
    \E name \in Names :
        /\ ImplArrowField(ty)
        /\ call' = <<"field", name>>
        /\ res' = <<"Field", field(ty, name)>>
        /\ UNCHANGED <<ty, h, iter>>

DoIsNullable ==
    /\ ImplArrowField(ty)
    /\ call' = <<"is_nullable">>
    /\ res' = <<"bool", is_nullable(ty)>>
    /\ UNCHANGED <<ty, h, iter>>

\* trait resolution of the bound `T: ArrowEnableVecForType`
DoEnableVec ==
    /\ call' = <<"ArrowEnableVecForType">>
    /\ res' = <<"bool", ArrowEnableVecForType(ty)>>
    /\ UNCHANGED <<ty, h, iter>>

NextField == DoDataType \/ DoField \/ DoIsNullable \/ DoEnableVec

SpecField == InitField /\ [][NextField]_vars

----------------------------------------------------------------------------
(* deserialize.rs: arrays and their items *)

\* number of items of an array
MaxLen == 3

\* outcomes of a call: a returned value, an Err result, or a panic
Ok(v) == <<"ok", v>>

Err(e) == <<"err", e>>

Panic == <<"panic">>

IsOk(o) == o[1] = "ok"

IsErr(o) == o[1] = "err"

Val(o) == o[2]

PrimitiveKinds ==
    { "u8", "u16", "u32", "u64", "i8", "i16", "i32", "i64", "f32", "f64" }

PrimitiveArray(k) == <<"PrimitiveArray", k>>

BooleanArray == <<"BooleanArray">>

Utf8Array == <<"Utf8Array", "i32">>

BinaryArray == <<"BinaryArray", "i32">>

ListArray == <<"ListArray", "i32">>

LeafArrayKinds ==
    { PrimitiveArray(k) : k \in PrimitiveKinds }
      \cup { BooleanArray, Utf8Array, BinaryArray }

\* the values an array of each kind is filled with
ValuesOf(kind) ==
    CASE kind[1] = "PrimitiveArray" -> { 1, 2 }
      [] kind = BooleanArray -> { TRUE, FALSE }
      [] kind = Utf8Array -> { <<>>, <<97, 98>> }
      [] kind = BinaryArray -> { <<>>, <<0, 255>> }

RECURSIVE SeqsUpTo(_, _)
SeqsUpTo(S, n) ==
    IF n = 0
      THEN { <<>> }
      ELSE LET P == SeqsUpTo(S, n - 1)
           IN  P \cup { Append(s, x) : s \in P, x \in S }

\* a `dyn Array`: its concrete representation and its items, each an Option
Array(kind, items) == <<kind, items>>

KindOf(b) == b[1]

ItemsOf(b) == b[2]

OptionsOf(S) == { None } \cup { Some(v) : v \in S }

LeafArrays(n) ==
    UNION { { Array(kind, items) : items \in SeqsUpTo(OptionsOf(ValuesOf(kind)), n) }
            : kind \in LeafArrayKinds }

\* the cells of a list array whose child arrays are of one kind: null, the
\* empty array, or an array of a single item
CellsOf(kind) ==
    OptionsOf({ Array(kind, <<>>) }
                \cup { Array(kind, <<x>>) : x \in OptionsOf(ValuesOf(kind)) })

\* list arrays of no, one or two cells
ListArrays ==
    UNION { { Array(ListArray, <<>>) }
              \cup { Array(ListArray, <<c>>) : c \in CellsOf(kind) }
              \cup { Array(ListArray, <<c, d>>) : c \in CellsOf(kind), d \in CellsOf(kind) }
            : kind \in LeafArrayKinds }

Arrays == LeafArrays(MaxLen) \cup ListArrays

----------------------------------------------------------------------------
(* deserialize.rs: ArrowDeserialize and ArrowArray *)

RECURSIVE ImplArrowDeserialize(_), ArrayType(_), arrow_deserialize(_, _)

\* which types implement ArrowDeserialize
ImplArrowDeserialize(T) ==
    CASE IsLeaf(T) ->
           Ctor(T) \in PrimitiveKinds
             \cup { "String", "bool", "NaiveDateTime", "NaiveDate" }
      [] Ctor(T) = "Option" -> ImplArrowDeserialize(Inner(T))
      [] Ctor(T) = "Vec" ->
           \/ Inner(T) = U8
           \/ ImplArrowDeserialize(Inner(T)) /\ ArrowEnableVecForType(Inner(T))
      [] OTHER -> FALSE

\* ArrowDeserialize::ArrayType
ArrayType(T) ==
    CASE IsLeaf(T) /\ Ctor(T) \in PrimitiveKinds -> PrimitiveArray(Ctor(T))
      [] T = Leaf("String") -> Utf8Array
      [] T = Leaf("bool") -> BooleanArray
      [] T = Leaf("NaiveDateTime") -> PrimitiveArray("i64")
      [] T = Leaf("NaiveDate") -> PrimitiveArray("i32")
      [] Ctor(T) = "Vec" -> IF Inner(T) = U8 THEN BinaryArray ELSE ListArray
      [] Ctor(T) = "Option" -> ArrayType(Inner(T))

\* Any::downcast_ref::<A>(): Some(array) when the concrete type is A
downcast_ref(kind, b) == IF KindOf(b) = kind THEN Some(b) ELSE None

\* Option::unwrap
unwrap(o) == IF IsSome(o) THEN Ok(Unwrapped(o)) ELSE Panic

\* iter_from_array_ref with the failed downcast turned into an Err result
iter_from_array_ref_checked(kind, b) ==
    LET a == downcast_ref(kind, b)
    IN  IF IsSome(a) THEN Ok(ItemsOf(Unwrapped(a))) ELSE Err("TypeMismatch")

\* ArrowArray::iter_from_array_ref, as impl_arrow_array! writes it: the
\* iterator is the sequence of items still to come
iter_from_array_ref(kind, b) ==
    LET a == unwrap(downcast_ref(kind, b))
    IN  IF IsOk(a) THEN Ok(ItemsOf(Val(a))) ELSE Panic

\* a copy of a str or of a slice, element by element
CopyOf(s) == [i \in 1..Len(s) |-> s[i]]

\* str::to_string
to_string(s) == CopyOf(s)

\* <[u8]>::to_vec
to_vec(s) == CopyOf(s)

NanosPerSecond == 1000000000

\* arrow2::temporal_conversions::timestamp_ns_to_datetime
timestamp_ns_to_datetime(t) ==
    <<"NaiveDateTime", t \div NanosPerSecond, t % NanosPerSecond>>

EpochDaysFromCE == 719163

\* arrow2::temporal_conversions::date32_to_date
date32_to_date(t) == <<"NaiveDate", t + EpochDaysFromCE>>

\* the leaf impls of arrow_deserialize: what `v.map(...)` applies to a value
LeafValue(T, t) ==
    CASE IsLeaf(T) /\ Ctor(T) \in PrimitiveKinds -> t
      [] T = Leaf("String") -> to_string(t)
      [] T = Leaf("bool") -> t
      [] T = Leaf("NaiveDateTime") -> timestamp_ns_to_datetime(t)
      [] T = Leaf("NaiveDate") -> date32_to_date(t)
      [] T = <<"Vec", U8>> -> to_vec(t)

\* the leaf conversion applied to the value only, a null item not handled
LeafDeserialize_unchecked(T, v) ==
    Some(LeafValue(T, IF IsSome(v) THEN Unwrapped(v) ELSE 0))

\* Option::map with the leaf conversion
LeafDeserialize(T, v) ==
    IF IsSome(v) THEN Some(LeafValue(T, Unwrapped(v))) ELSE None

\* ArrowDeserialize::arrow_deserialize_internal: the default method unwraps
\* arrow_deserialize, the Option<T> impl forwards to T::arrow_deserialize
arrow_deserialize_internal(T, v) ==
    IF Ctor(T) = "Option"
      THEN arrow_deserialize(Inner(T), v)
      ELSE LET r == arrow_deserialize(T, v)
           IN  IF IsOk(r) THEN unwrap(Val(r)) ELSE Panic

\* Iterator::collect over `.map(arrow_deserialize_internal)`: the items in
\* order, or the panic of the first item whose conversion panics
RECURSIVE Collect(_, _, _)
Collect(T, items, acc) ==
    IF items = <<>>
      THEN Ok(acc)
      ELSE LET r == arrow_deserialize_internal(T, items[1])
           IN  IF IsOk(r)
                 THEN Collect(T, Tail(items), Append(acc, Val(r)))
                 ELSE Panic

\* arrow_array_typed_iterator: `?` on iter_from_array_ref, then the lazy map
arrow_array_typed_iterator(T, b) ==
    LET it == iter_from_array_ref(ArrayType(T), b)
    IN  IF IsOk(it) THEN Ok(<<T, Val(it)>>) ELSE it

\* Result::ok
ok(r) == IF IsOk(r) THEN Some(Val(r)) ELSE None

\* impl ArrowDeserialize for Vec<T>
VecDeserialize(T, v) ==
    IF IsSome(v)
      THEN LET r == arrow_array_typed_iterator(T, Unwrapped(v))
           IN  IF r = Panic
                 THEN Panic
                 ELSE LET i == ok(r)
                      IN  IF IsSome(i)
                            THEN LET c == Collect(T, Unwrapped(i)[2], <<>>)
                                 IN  IF IsOk(c) THEN Ok(Some(Val(c))) ELSE Panic
                            ELSE Ok(None)
      ELSE Ok(None)

\* Option<T> deserialized as T is, without the wrapping Some
OptionDeserialize_flat(T, v) == arrow_deserialize(T, v)

\* impl ArrowDeserialize for Option<T>
OptionDeserialize(T, v) ==
    LET r == arrow_deserialize_internal(<<"Option", T>>, v)
    IN  IF IsOk(r) THEN Ok(Some(Val(r))) ELSE Panic

\* ArrowDeserialize::arrow_deserialize, one case per impl
arrow_deserialize(T, v) ==
    CASE Ctor(T) = "Option" -> OptionDeserialize(Inner(T), v)
      [] Ctor(T) = "Vec" /\ Inner(T) # U8 -> VecDeserialize(Inner(T), v)
      [] OTHER -> Ok(LeafDeserialize(T, v))

\* the types of the model that implement ArrowDeserialize
DeserTypes == { T \in TypesUpTo(MaxDepth) : ImplArrowDeserialize(T) }

----------------------------------------------------------------------------
(* Deserialization as a state machine: a target type and an array are      *)
(* chosen; the array is handed to the adapters, its items to the           *)
(* deserializers, and a typed iterator is drained item by item.  Calls are *)
(* made one at a time: an iterator that was created is drained, until it   *)
(* returns None, before the next call.  A panic ends the run.              *)

\* the arrays a type is tried on: those of the representation it reads
\* its items or its list cells from and, a mismatching array being rejected
\* before any item is read, the mismatching arrays of at most one item
ArraysFor(T) ==
    { b \in Arrays :
        \/ KindOf(b) = ArrayType(T)
        \/ Ctor(T) = "Vec" /\ Inner(T) # U8 /\ KindOf(b) = ArrayType(Inner(T))
        \/ Len(ItemsOf(b)) <= 1 }

InitDeser ==
    /\ ty \in DeserTypes
    /\ h \in ArraysFor(ty)
    /\ call = <<"none">>
    /\ res = <<"none">>
    /\ iter = NoIter

Running == res # Panic

\* no typed iterator is being drained
Idle == iter = NoIter

\* the array has the representation the type's items are read from
Matches == KindOf(h) = ArrayType(ty)

DoIterFromArrayRef ==
    /\ Running
    /\ Idle
    /\ call' = <<"iter_from_array_ref">>
    /\ res' = iter_from_array_ref(ArrayType(ty), h)
    /\ UNCHANGED <<ty, h, iter>>

\* iter holds the position of the typed iterator and what it has yielded
DoTypedIterator ==
    /\ Running
    /\ Idle
    /\ call' = <<"arrow_array_typed_iterator">>
    /\ LET r == arrow_array_typed_iterator(ty, h)
       IN  /\ res' = r
           /\ iter' = IF IsOk(r) THEN <<"iter", Val(r)[2], <<>>>> ELSE NoIter
    /\ UNCHANGED <<ty, h>>

\* Iterator::next on the typed iterator
DoNext ==
    /\ Running
    /\ iter # NoIter
    /\ call' = <<"next">>
    /\ IF iter[2] = <<>>
         THEN /\ res' = Ok(None)
              /\ iter' = NoIter
         ELSE LET r == arrow_deserialize_internal(ty, iter[2][1])
              IN  IF IsOk(r)
                    THEN /\ res' = Ok(Some(Val(r)))
                         /\ iter' = <<"iter", Tail(iter[2]), Append(iter[3], Val(r))>>
                    ELSE /\ res' = Panic
                         /\ iter' = NoIter
    /\ UNCHANGED <<ty, h>>

\* arrow_deserialize on the i-th item of an array of the type's ArrayType
DoDeserialize ==
    \E i \in 1..MaxLen :
        /\ Running
        /\ Idle
        /\ Matches
        /\ i <= Len(ItemsOf(h))
        /\ call' = <<"arrow_deserialize", i>>
        /\ res' = arrow_deserialize(ty, ItemsOf(h)[i])
        /\ UNCHANGED <<ty, h, iter>>

DoDeserializeInternal ==
    \E i \in 1..MaxLen :
        /\ Running
        /\ Idle
        /\ Matches
        /\ i <= Len(ItemsOf(h))
        /\ call' = <<"arrow_deserialize_internal", i>>
        /\ res' = arrow_deserialize_internal(ty, ItemsOf(h)[i])
        /\ UNCHANGED <<ty, h, iter>>

\* Vec<T>::arrow_deserialize on a list cell: null, or the array itself
DoDeserializeCell ==
    \E cell \in { "None", "Some" } :
        /\ Running
        /\ Idle
        /\ Ctor(ty) = "Vec"
        /\ Inner(ty) # U8
        /\ call' = <<"arrow_deserialize_cell", cell>>
        /\ res' = arrow_deserialize(ty, IF cell = "Some" THEN Some(h) ELSE None)
        /\ UNCHANGED <<ty, h, iter>>

NextDeser ==
    \/ DoIterFromArrayRef
    \/ DoTypedIterator
    \/ DoNext
    \/ DoDeserialize
    \/ DoDeserializeInternal
    \/ DoDeserializeCell

SpecDeser == InitDeser /\ [][NextDeser]_vars

----------------------------------------------------------------------------
(* Properties of the schema descriptor (SpecField) *)

IsOption(T) == Ctor(T) = "Option"

\* C5: data_type of Option<T> is data_type of T; is_nullable is true of
\* Option<T> and false of every other type; hence field(name) is nullable
\* exactly for an Option wrapper and carries the inner type's data type.
C5_OptionIsNullableOnly ==
    /\ (call = <<"data_type">> /\ IsOption(ty))
         => res = <<"DataType", data_type(Inner(ty))>>
    /\ call = <<"is_nullable">> => res = <<"bool", IsOption(ty)>>
    /\ call[1] = "field"
         => /\ res[1] = "Field"
            /\ res[2][1] = call[2]
            /\ res[2][3] = IsOption(ty)
            /\ res[2][2] = data_type(IF IsOption(ty) THEN Inner(ty) ELSE ty)

C5_Witness ==
    /\ call = <<"field", "a">>
    /\ ty = <<"Option", Leaf("u32")>>
    /\ res = <<"Field", <<"a", <<"UInt32">>, TRUE>>>>

\* C6: data_type of Vec<u8> is Binary and not a List; data_type of Vec<T>
\* for any other T is List of the field "item" of T (for Vec<u32>: "item",
\* UInt32, not nullable); u8 lacks the marker of the generic rule, so the
\* two rules never apply to one type.
C6_ByteVecIsBinary ==
    /\ (call = <<"data_type">> /\ Ctor(ty) = "Vec")
         => IF Inner(ty) = U8
              THEN res[2] = <<"Binary">> /\ res[2][1] # "List"
              ELSE /\ res[2][1] = "List"
                   /\ res[2][2] = <<"item", data_type(Inner(ty)), IsOption(Inner(ty))>>
    /\ (call = <<"data_type">> /\ ty = <<"Vec", Leaf("u32")>>)
         => res[2] = <<"List", <<"item", <<"UInt32">>, FALSE>>>>
    /\ (call = <<"ArrowEnableVecForType">> /\ ty = U8) => res = <<"bool", FALSE>>

C6_Witness ==
    /\ call = <<"data_type">>
    /\ ty = <<"Vec", U8>>
    /\ res = <<"DataType", <<"Binary">>>>

\* the length n of a usize, as an i32 holds it
UsizeOf(i) == <<i \div HalfWord, i % HalfWord>>

\* C7: the data type of a fixed-length container of length N has the fixed
\* length N: FixedSizeVec<T, N>, FixedSizeBinary<N>, and [T; N] and [u8; N]
\* also for N beyond the i32 range.
C7_FixedLenIsN ==
    (call = <<"data_type">> /\ Ctor(ty) \in { "FixedSizeVec", "FixedSizeBinary", "Array" })
      => /\ res[2][1] \in { "FixedSizeList", "FixedSizeBinary" }
         /\ IF Ctor(ty) = "Array"
              THEN res[2][3][1] >= 0 /\ UsizeOf(res[2][3][1]) = Param(ty)
              ELSE res[2][3] = Param(ty)

\* the types with the marker, built up from the base list
RepeatableBase ==
    { Leaf(k) : k \in NumericFull }
      \cup { Leaf(k) : k \in { "String", "LargeString", "bool", "NaiveDateTime",
                               "NaiveDate", "Buffer", "LargeBinary" } }
      \cup { <<"Vec", U8>>, <<"ScalarBuffer", U8>> }
      \cup { T \in LeafTypes : Ctor(T) \in { "FixedSizeBinary", "I128" } }

\* the composition rules as the claim lists them
ClaimedRules(R) ==
    { <<c, T>> : c \in { "Option", "Vec", "LargeVec" }, T \in R }
      \cup { <<"FixedSizeVec", T, <<n>>>> : T \in R, n \in I32Sizes }
      \cup { <<"Array", T, n>> : T \in R, n \in UsizeSizes }

\* the composition rules of the impls
ImplRules(R) ==
    { <<c, T>> : c \in { "Option", "Vec", "LargeVec" }, T \in R }
      \cup { <<"FixedSizeVec", T, <<n>>>> : T \in R, n \in I32Sizes }
      \cup { <<"ScalarBuffer", T>> : T \in { X \in R : ArrowNativeType(X) } }

RECURSIVE ClaimedClosure(_), ImplClosure(_)

ClaimedClosure(d) ==
    IF d = 0
      THEN RepeatableBase
      ELSE RepeatableBase \cup ClaimedRules(ClaimedClosure(d - 1))

ImplClosure(d) ==
    IF d = 0
      THEN RepeatableBase
      ELSE RepeatableBase \cup ImplRules(ImplClosure(d - 1))

ClaimedRepeatable == ClaimedClosure(MaxDepth)

ImplRepeatable == ImplClosure(MaxDepth)

\* C8 as stated: the repeatable types are the closure of the base list
\* under Option<T>, Vec<T>, LargeVec<T>, FixedSizeVec<T, N> and [T; N], and
\* no other type (notably u8) is repeatable.
C8_ClosureWithArrays ==
    call = <<"ArrowEnableVecForType">>
      => res = <<"bool", ty \in ClaimedRepeatable>>

\* C8 amended: the repeatable types are the closure of the base list under
\* Option<T>, Vec<T>, LargeVec<T>, FixedSizeVec<T, N> and, for a native
\* numeric T, ScalarBuffer<T>; no other type is repeatable: not u8, and not
\* the array [T; N].
C8_ClosureOfImpls ==
    call = <<"ArrowEnableVecForType">>
      => /\ res = <<"bool", ty \in ImplRepeatable>>
         /\ (ty = U8 \/ Ctor(ty) = "Array") => res = <<"bool", FALSE>>

C8_Witness ==
    /\ call = <<"ArrowEnableVecForType">>
    /\ ty = <<"Array", Leaf("u32"), <<0, 3>>>>
    /\ res = <<"bool", FALSE>>

----------------------------------------------------------------------------
(* Properties of deserialization (SpecDeser) *)

\* the element type of the lists a type is read from
RECURSIVE ElemType(_)
ElemType(T) == IF IsOption(T) THEN ElemType(Inner(T)) ELSE Inner(T)

\* the array has the representation T expects, and so has every cell of a
\* list array
RECURSIVE Conforms(_, _)
Conforms(T, b) ==
    /\ KindOf(b) = ArrayType(T)
    /\ ArrayType(T) = ListArray
         => \A i \in 1..Len(ItemsOf(b)) :
                IsSome(ItemsOf(b)[i])
                  => Conforms(ElemType(T), Unwrapped(ItemsOf(b)[i]))

\* the item the call in `call` was made on
CallItem == ItemsOf(h)[call[2]]

\* C1: an array whose representation is not the one the type expects makes
\* iter_from_array_ref and arrow_array_typed_iterator return an Err result,
\* without a panic.
C1_MismatchIsErr ==
    (call[1] \in { "iter_from_array_ref", "arrow_array_typed_iterator" }
       /\ KindOf(h) # ArrayType(ty))
      => IsErr(res)

\* C2: Option<T>::arrow_deserialize(x) is Some(r) for the r that
\* T::arrow_deserialize(x) returns, Some(None) for a null item and
\* Some(Some(v)) for a value of a leaf type, and never None;
\* Option<T>::arrow_deserialize_internal(x) is T::arrow_deserialize(x).
C2_OptionWrapsOnce ==
    /\ (call[1] = "arrow_deserialize" /\ IsOption(ty))
         => LET r == arrow_deserialize(Inner(ty), CallItem)
            IN  /\ res # Ok(None)
                /\ IsOk(r) => res = Ok(Some(Val(r)))
                /\ (IsLeaf(Inner(ty)) /\ ~IsSome(CallItem)) => res = Ok(Some(None))
                /\ (Inner(ty) \in { Leaf("u32"), Leaf("bool") } /\ IsSome(CallItem))
                     => res = Ok(Some(Some(Unwrapped(CallItem))))
    /\ (call[1] = "arrow_deserialize_internal" /\ IsOption(ty))
         => res = arrow_deserialize(Inner(ty), CallItem)

C2_Witness ==
    /\ call = <<"arrow_deserialize", 1>>
    /\ ty = <<"Option", Leaf("u32")>>
    /\ CallItem = None
    /\ res = Ok(Some(None))

\* what the items of a conforming array deserialize to, in order
ExpectedItems(T, b) ==
    [i \in 1..Len(ItemsOf(b)) |-> Val(arrow_deserialize_internal(T, ItemsOf(b)[i]))]

\* C3: Vec<T>::arrow_deserialize(None) is None; for Some(array) with N
\* items of T's representation it is Some of the N deserialized items, in
\* the order of the array.
C3_VecCollectsInOrder ==
    /\ (call = <<"arrow_deserialize_cell", "None">>) => res = Ok(None)
    /\ (call = <<"arrow_deserialize_cell", "Some">> /\ Conforms(Inner(ty), h))
         => /\ IsOk(res)
            /\ IsSome(Val(res))
            /\ Len(Unwrapped(Val(res))) = Len(ItemsOf(h))
            /\ Unwrapped(Val(res)) = ExpectedItems(Inner(ty), h)

PrimitiveLeaf ==
    { Leaf(k) : k \in PrimitiveKinds } \cup { Leaf("String"), Leaf("bool"), <<"Vec", U8>> }

\* C4: for a primitive leaf type, arrow_deserialize of a null item is None
\* and of an item holding v is Some(v).
C4_LeafIsItem ==
    (call[1] = "arrow_deserialize" /\ ty \in PrimitiveLeaf)
      => /\ res = Ok(CallItem)
         /\ ~IsSome(CallItem) => res = Ok(None)

C4_Witness ==
    /\ call = <<"arrow_deserialize", 2>>
    /\ ty = Leaf("String")
    /\ ItemsOf(h) = <<None, Some(<<97, 98>>)>>
    /\ res = Ok(Some(<<97, 98>>))

\* C9: no call on an array or item of the expected representation panics,
\* a null item of a non-optional element type included.
C9_NoPanic ==
    /\ (call[1] \in { "iter_from_array_ref", "arrow_array_typed_iterator", "next",
                      "arrow_deserialize", "arrow_deserialize_internal" }
          /\ Conforms(ty, h))
         => res # Panic
    /\ (call[1] = "arrow_deserialize_cell" /\ Conforms(Inner(ty), h))
         => res # Panic

\* C10: Vec<T>::arrow_deserialize of Some(array) of a representation other
\* than the one T expects does not return the None it returns for a null
\* cell.
C10_MismatchIsNotNone ==
    (call = <<"arrow_deserialize_cell", "Some">> /\ KindOf(h) # ArrayType(Inner(ty)))
      => res # arrow_deserialize(ty, None)

C10_Witness ==
    /\ call = <<"arrow_deserialize_cell", "Some">>
    /\ ty = <<"Vec", Leaf("u32")>>
    /\ KindOf(h) = BooleanArray
    /\ res = Panic

====
